---- MODULE Spec2Model ----
(***************************************************************************)
(* Model of octodns.provider.googledns.GoogleProvider: the zone inventory  *)
(* (zones), the record set fetcher (zone_records), the inbound translators *)
(* (_data_for_TYPE), the outbound translators (_contents_for_TYPE),        *)
(* populate and the change applier (_apply, _apply_Create, _apply_Delete). *)
(*                                                                         *)
(* The provider is single threaded and synchronous, so one call of         *)
(* populate / zone_records / _apply is one action.  A call threads a       *)
(* context record c through the statements of the method:                  *)
(*   c._zones, c._zone_records   the two instance fields                   *)
(*   c.reqs                      the remote requests executed so far       *)
(*   c.status                    "ok" or the exception that is propagating *)
(*   c.failAt                    which request.execute() of this call      *)
(*                               raises (0: none), chosen by the remote    *)
(*   c.failed                    the position in c.reqs of the request     *)
(*                               that raised (0: none)                     *)
(*   c.cur                       the position in the change list of the    *)
(*                               change being applied (0: none)            *)
(*   c.ret                       the value returned by zone_records        *)
(*   c.added                     the records populate added to the zone    *)
(* Strings whose characters matter are sequences of one-character strings. *)
(*                                                                         *)
(* The remote service is the environment: remoteZones is the paginated     *)
(* managedZones listing, remoteRecords says which record sets each zone    *)
(* holds now, and RemoteChange changes them between two calls.  After a    *)
(* call the variable last holds the call and its outcome until Return      *)
(* hands it to the caller.                                                 *)
(***************************************************************************)
EXTENDS Integers, Sequences, FiniteSets, TLC

VARIABLES
    _zones,         \* self._zones: [isNone, map]; map: dnsName -> id
    _zone_records,  \* self._zone_records: zone name -> list of rrsets
    remoteZones,    \* remote service: pages of the managedZones listing
    remoteRecords,  \* remote service: managedZone id -> which listing it holds
    last,           \* the call that was made last, with its outcome
    prev,           \* the zone of the previous call when that was an _apply
                    \* that returned normally, else ""
    tin,            \* translator specification: the input
    tout            \* translator specification: the output

vars == <<_zones, _zone_records, remoteZones, remoteRecords, last, prev, tin, tout>>

(***************************************************************************)
(* Bounds                                                                  *)
(***************************************************************************)
MaxChanges == 2     \* longest change list of a plan
MaxFail == 4        \* latest request of one call that may fail
MaxValues == 2      \* longest values list / group of the translator inputs
MaxTxtLen == 3      \* longest TXT string of the translator inputs

(***************************************************************************)
(* Dictionaries                                                            *)
(***************************************************************************)
EmptyMap == [k \in {} |-> "False"]

Put(m, k, v) == [n \in DOMAIN m \cup {k} |-> IF n = k THEN v ELSE m[n]]

Pop(m, k) == [n \in DOMAIN m \ {k} |-> m[n]]

Get(m, k, default) == IF k \in DOMAIN m THEN m[k] ELSE default

\* Python truth value of a zone id: False is falsy, a non-empty id is truthy
Truthy(zone_id) == zone_id # "False"

(***************************************************************************)
(* Names.  An fqdn is the pair <<hostname, zone name>>.                    *)
(***************************************************************************)
ZoneNames == {"a.", "b."}

fqdn(record) == <<record.name, record.zone>>

hostname_from_fqdn(name) == name[1]

SUPPORTS == {"A", "AAAA", "CAA", "CNAME", "MX", "NAPTR", "NS", "PTR",
             "SPF", "SRV", "TXT"}

(***************************************************************************)
(* str.replace on character sequences                                      *)
(***************************************************************************)
RECURSIVE escape(_)
\* value.replace(';', '\;')
escape(s) ==
    IF s = <<>> THEN <<>>
    ELSE IF Head(s) = ";" THEN <<"\\", ";">> \o escape(Tail(s))
    ELSE <<Head(s)>> \o escape(Tail(s))

RECURSIVE unescape(_)
\* value.replace('\;', ';')
unescape(s) ==
    IF s = <<>> THEN <<>>
    ELSE IF Len(s) >= 2 /\ s[1] = "\\" /\ s[2] = ";"
         THEN <<";">> \o unescape(Tail(Tail(s)))
    ELSE <<Head(s)>> \o unescape(Tail(s))

(***************************************************************************)
(* Inbound translators: _data_for_<type>(_type, records)                   *)
(***************************************************************************)
_data_for_multiple(_type, records) ==
    [ttl |-> records[1].ttl,
     type |-> _type,
     values |-> [i \in 1..Len(records) |-> records[i].rrdatas[1]]]

_data_for_TXT(_type, records) ==
    [ttl |-> records[1].ttl,
     type |-> _type,
     values |-> [i \in 1..Len(records) |-> escape(records[i].rrdatas[1])]]

_data_for_CNAME(_type, records) ==
    [ttl |-> records[1].ttl,
     type |-> _type,
     value |-> records[1].rrdatas[1]]

_data_for_MX(_type, records) ==
    [ttl |-> records[1].ttl,
     type |-> _type,
     values |-> [i \in 1..Len(records) |->
                    [preference |-> records[i].priority,
                     exchange |-> records[i].rrdatas[1]]]]

_data_for_SRV(_type, records) ==
    [ttl |-> records[1].ttl,
     type |-> _type,
     values |-> [i \in 1..Len(records) |-> records[i].rrdatas[1]]]

_data_for_NAPTR(_type, records) ==
    [ttl |-> records[1].ttl,
     type |-> _type,
     values |-> [i \in 1..Len(records) |-> records[i].rrdatas[1]]]

_data_for_NS(_type, records) ==
    [ttl |-> records[1].ttl,
     type |-> _type,
     values |-> [i \in 1..Len(records) |-> records[i].rrdatas[1]]]

\* the types for which getattr(self, '_data_for_<type>') resolves
DataForTypes == {"A", "AAAA", "SPF", "TXT", "CNAME", "MX", "SRV", "NAPTR", "NS"}

data_for(_type, records) ==
    CASE _type \in {"A", "AAAA", "SPF"} -> _data_for_multiple(_type, records)
      [] _type = "TXT" -> _data_for_TXT(_type, records)
      [] _type = "CNAME" -> _data_for_CNAME(_type, records)
      [] _type = "MX" -> _data_for_MX(_type, records)
      [] _type = "SRV" -> _data_for_SRV(_type, records)
      [] _type = "NAPTR" -> _data_for_NAPTR(_type, records)
      [] _type = "NS" -> _data_for_NS(_type, records)

(***************************************************************************)
(* Outbound translators: _contents_for_<type>(record), the fragments in    *)
(* the order the generator yields them                                     *)
(***************************************************************************)
\* the value is sent as it is stored, escapes included
_contents_for_TXT_raw(record) ==
    [i \in 1..Len(record.values) |-> [content |-> record.values[i]]]

\* only the first value is yielded
_contents_for_multiple_first(record) ==
    [i \in 1..(IF record.values = <<>> THEN 0 ELSE 1) |->
        [rrdatas |-> <<record.values[i]>>]]

_contents_for_multiple(record) ==
    [i \in 1..Len(record.values) |-> [rrdatas |-> <<record.values[i]>>]]

_contents_for_TXT(record) ==
    [i \in 1..Len(record.values) |-> [content |-> unescape(record.values[i])]]

_contents_for_CNAME(record) ==
    <<[content |-> record.value]>>

_contents_for_MX(record) ==
    [i \in 1..Len(record.values) |->
        [priority |-> record.values[i].preference,
         content |-> record.values[i].exchange]]

\* the types for which getattr(self, '_contents_for_<type>') resolves
ContentsForTypes == {"A", "AAAA", "NS", "SPF", "TXT", "CNAME", "MX"}

contents_for(record) ==
    CASE record.type \in {"A", "AAAA", "NS", "SPF"} -> _contents_for_multiple(record)
      [] record.type = "TXT" -> _contents_for_TXT(record)
      [] record.type = "CNAME" -> _contents_for_CNAME(record)
      [] record.type = "MX" -> _contents_for_MX(record)

(***************************************************************************)
(* The remote service                                                      *)
(***************************************************************************)
ManagedZone(dnsName, id) == [dnsName |-> dnsName, id |-> id]

\* the layouts of the managedZones listing, one page or two: "a." exists
\* (on the last page) and "b." does not
ZoneLayouts ==
    { << <<ManagedZone("a.", "z1")>> >>,
      << <<ManagedZone("c.", "z3")>>, <<ManagedZone("a.", "z1")>> >> }

\* the managedZone parameters a request of the provider can carry
RemoteIds == {"z1", "False"}

ZoneOfId(id) == IF id = "z1" THEN "a." ELSE "b."

RRSet(host, zone, type, ttl, rrdatas) ==
    [name |-> <<host, zone>>, type |-> type, ttl |-> ttl, rrdatas |-> rrdatas]

ListingNames == {"empty", "paged", "mixed", "grouped", "untranslated"}

\* the record set listings a zone can hold: sequences of pages
Listings(zone) ==
    [l \in ListingNames |->
        CASE l = "empty" -> << <<>> >>
          [] l = "paged" ->
               << <<RRSet("x", zone, "A", 300, << <<"1">> >>)>>,
                  <<RRSet("x", zone, "A", 300, << <<"2">> >>)>> >>
          [] l = "mixed" ->
               << <<RRSet("x", zone, "A", 300, << <<"1">>, <<"2">> >>),
                    RRSet("x", zone, "TXT", 60, << <<"v", ";">> >>),
                    RRSet("", zone, "SOA", 60, << <<"n">> >>)>> >>
          [] l = "grouped" ->
               << <<RRSet("x", zone, "A", 300, << <<"1">> >>),
                    RRSet("y", zone, "A", 300, << <<"2">> >>),
                    RRSet("x", zone, "NS", 300, << <<"n">> >>)>>,
                  <<RRSet("x", zone, "A", 60, << <<"3">> >>)>> >>
          [] l = "untranslated" ->
               << <<RRSet("x", zone, "A", 300, << <<"1">> >>),
                    RRSet("x", zone, "CAA", 300, << <<"c">> >>)>> >>]

\* the zone ids whose record sets change; a list request whose managedZone
\* is no zone id is answered with the "paged" listing, when it is answered
ZoneIds == {"z1"}

\* the pages the remote returns for resourceRecordSets.list(managedZone=id)
RemotePages(id) == Listings(ZoneOfId(id))[remoteRecords[id]]

RECURSIVE Flatten(_)
\* the concatenation of the pages of a listing
Flatten(pages) ==
    IF pages = <<>> THEN <<>> ELSE Head(pages) \o Flatten(Tail(pages))

(***************************************************************************)
(* request.execute(): the request is sent; the failAt-th one of a call     *)
(* raises.  frag is the position of the fragment a write request carries.  *)
(***************************************************************************)
execute(c, request, frag) ==
    [c EXCEPT !.reqs = Append(@, [request |-> request, change |-> c.cur,
                                  frag |-> frag]),
              !.status = IF Len(c.reqs) + 1 = c.failAt
                         THEN "TransportFailure" ELSE "ok",
              !.failed = IF Len(c.reqs) + 1 = c.failAt
                         THEN Len(c.reqs) + 1 ELSE @]

(***************************************************************************)
(* GoogleProvider.zones                                                    *)
(***************************************************************************)
RECURSIVE zones_add(_, _)
\* for managed_zone in response['managedZones']: zones[dnsName] = id
zones_add(zones, managedZones) ==
    IF managedZones = <<>> THEN zones
    ELSE zones_add(Put(zones, Head(managedZones).dnsName, Head(managedZones).id),
                   Tail(managedZones))

\* the listing stops after the first response
zones_loop_first_page(c, zones, i) ==
    LET c1 == execute(c, [kind |-> "managedZones.list", page |-> i], 0)
    IN  IF c1.status # "ok" THEN c1
        ELSE [c1 EXCEPT !._zones = [isNone |-> FALSE,
                                    map |-> zones_add(zones, remoteZones[i])]]

RECURSIVE zones_loop(_, _, _)
\* while request is not None: the request of page i
zones_loop(c, zones, i) ==
    IF i > Len(remoteZones)
    THEN [c EXCEPT !._zones = [isNone |-> FALSE, map |-> zones]]
    ELSE LET c1 == execute(c, [kind |-> "managedZones.list", page |-> i], 0)
         IN  IF c1.status # "ok" THEN c1
             ELSE zones_loop(c1, zones_add(zones, remoteZones[i]), i + 1)

\* the inventory is listed again on every access
zones_refetch(c) ==
    IF c.status # "ok" THEN c ELSE zones_loop(c, EmptyMap, 1)

zones(c) ==
    IF c.status # "ok" THEN c
    ELSE IF c._zones.isNone THEN zones_loop(c, EmptyMap, 1)
    ELSE c

(***************************************************************************)
(* GoogleProvider.zone_records                                             *)
(***************************************************************************)
RECURSIVE zone_records_loop(_, _, _, _, _)
\* while request is not None: the request of page i
zone_records_loop(c, name, zone_id, records, i) ==
    IF i > Len(RemotePages(zone_id))
    THEN [c EXCEPT !._zone_records = Put(@, name, records), !.ret = records]
    ELSE LET c1 == execute(c, [kind |-> "resourceRecordSets.list",
                               managedZone |-> zone_id, page |-> i], 0)
         IN  IF c1.status # "ok" THEN c1
             ELSE zone_records_loop(c1, name, zone_id,
                                    records \o RemotePages(zone_id)[i], i + 1)

zone_records(c, name) ==
    LET cached == name \in DOMAIN c._zone_records
        c1 == IF cached THEN c ELSE zones(c)
        c2 == zones(c1)
        zone_id == Get(c2._zones.map, name, "False")
    IN  IF c1.status # "ok" THEN c1
        ELSE IF ~cached /\ ~Truthy(Get(c1._zones.map, name, "False"))
             THEN [c1 EXCEPT !.ret = <<>>]
        ELSE IF c2.status # "ok" THEN c2
        ELSE zone_records_loop(c2, name, zone_id, <<>>, 1)

(***************************************************************************)
(* GoogleProvider.populate                                                 *)
(***************************************************************************)
\* Record.new(zone, name, data, ...): the neutral record of the data dict
Record_new(zone, name, data) == [zone |-> zone, name |-> name] @@ data

\* every type is let through
supported_any(_type) == TRUE

\* if _type in self.SUPPORTS
supported(_type) == _type \in SUPPORTS

\* the record sets are filed by type alone
group_key_by_type(record) == <<"", record.type>>

\* values[name][record['type']]: the group a record set is appended to
group_key(record) == <<hostname_from_fqdn(record.name), record.type>>

populate(c, zone) ==
    LET c1 == zone_records(c, zone)
        records == c1.ret
        kept == SelectSeq(records, LAMBDA r : supported(r.type))
        keys == {group_key(kept[i]) : i \in DOMAIN kept}
        group(k) == SelectSeq(kept, LAMBDA r : group_key(r) = k)
    IN  IF c1.status # "ok" THEN c1
        ELSE IF records = <<>> THEN c1
        ELSE IF \E k \in keys : k[2] \notin DataForTypes
             THEN [c1 EXCEPT !.status = "AttributeError"]
        ELSE [c1 EXCEPT !.added =
                 {Record_new(zone, k[1], data_for(k[2], group(k))) : k \in keys}]

(***************************************************************************)
(* GoogleProvider._apply_Create / _apply_Delete                            *)
(***************************************************************************)
\* content.update({"name": ..., "type": ..., "ttl": ...})
content_update(content, record) ==
    [name |-> fqdn(record), type |-> record.type, ttl |-> record.ttl] @@ content

\* only the k-th fragment is sent
change_requests_once(c, zone_id, record, key, contents, k) ==
    IF k > Len(contents) THEN c
    ELSE execute(c, [kind |-> "changes.create", managedZone |-> zone_id,
                     body |-> (key :> <<content_update(contents[k], record)>>)
                              @@ [kind |-> "dns#change"]], k)

RECURSIVE change_requests(_, _, _, _, _, _)
\* for content in contents_for(record): one changes().create request per
\* fragment, the k-th fragment first; key is "additions" or "deletions"
change_requests(c, zone_id, record, key, contents, k) ==
    IF k > Len(contents) THEN c
    ELSE LET content == content_update(contents[k], record)
             change_body == (key :> <<content>>) @@ [kind |-> "dns#change"]
             c1 == execute(c, [kind |-> "changes.create",
                               managedZone |-> zone_id,
                               body |-> change_body], k)
         IN  IF c1.status # "ok" THEN c1
             ELSE change_requests(c1, zone_id, record, key, contents, k + 1)

_apply_Create(c, change) ==
    LET new == change.new
        c1 == zones(c)
    IN  IF c1.status # "ok" THEN c1
        ELSE IF new.zone \notin DOMAIN c1._zones.map
             THEN [c1 EXCEPT !.status = "KeyError"]
        ELSE IF new.type \notin ContentsForTypes
             THEN [c1 EXCEPT !.status = "AttributeError"]
        ELSE change_requests(c1, c1._zones.map[new.zone], new, "additions",
                             contents_for(new), 1)

RECURSIVE _apply_Delete_loop(_, _, _, _, _)
\* for record in self.zone_records(existing.zone): the i-th record
_apply_Delete_loop(c, zone_id, existing, records, i) ==
    IF i > Len(records) THEN c
    ELSE IF existing.type \notin ContentsForTypes
         THEN [c EXCEPT !.status = "AttributeError"]
    ELSE LET c1 == change_requests(c, zone_id, existing, "deletions",
                                   contents_for(existing), 1)
         IN  IF c1.status # "ok" THEN c1
             ELSE _apply_Delete_loop(c1, zone_id, existing, records, i + 1)

_apply_Delete(c, change) ==
    LET existing == change.existing
        c1 == zones(c)
        c2 == zone_records(c1, existing.zone)
    IN  IF c1.status # "ok" THEN c1
        ELSE IF existing.zone \notin DOMAIN c1._zones.map
             THEN [c1 EXCEPT !.status = "KeyError"]
        ELSE IF c2.status # "ok" THEN c2
        ELSE _apply_Delete_loop(c2, c1._zones.map[existing.zone], existing,
                                c2.ret, 1)

(***************************************************************************)
(* GoogleProvider._apply                                                   *)
(***************************************************************************)
RECURSIVE _apply_changes_continue(_, _, _)
\* a change that raises is skipped and the next one is applied
_apply_changes_continue(c, changes, i) ==
    IF i > Len(changes) THEN c
    ELSE LET change == changes[i]
             c0 == [c EXCEPT !.cur = i, !.status = "ok"]
             c1 == CASE change.class = "Create" -> _apply_Create(c0, change)
                     [] change.class = "Delete" -> _apply_Delete(c0, change)
                     [] OTHER -> [c0 EXCEPT !.status = "AttributeError"]
         IN  _apply_changes_continue(c1, changes, i + 1)

RECURSIVE _apply_changes_skip_other(_, _, _)
\* a change that is neither a Create nor a Delete is passed over
_apply_changes_skip_other(c, changes, i) ==
    IF i > Len(changes) THEN c
    ELSE LET change == changes[i]
             c0 == [c EXCEPT !.cur = i]
             c1 == CASE change.class = "Create" -> _apply_Create(c0, change)
                     [] change.class = "Delete" -> _apply_Delete(c0, change)
                     [] OTHER -> c0
         IN  IF c1.status # "ok" THEN c1
             ELSE _apply_changes_skip_other(c1, changes, i + 1)

RECURSIVE _apply_changes(_, _, _)
\* for change in changes: getattr(self, '_apply_<class name>')(change)
_apply_changes(c, changes, i) ==
    IF i > Len(changes) THEN c
    ELSE LET change == changes[i]
             c0 == [c EXCEPT !.cur = i]
             c1 == CASE change.class = "Create" -> _apply_Create(c0, change)
                     [] change.class = "Delete" -> _apply_Delete(c0, change)
                     [] OTHER -> [c0 EXCEPT !.status = "AttributeError"]
         IN  IF c1.status # "ok" THEN c1
             ELSE _apply_changes(c1, changes, i + 1)

\* nothing is stored for a zone the inventory does not hold
_apply_no_matching_zone_skip(c, name) == c

\* the block under `if name not in self.zones`
_apply_no_matching_zone(c, name) ==
    LET zone_id == Get(c._zones.map, name, "False")
    IN  [c EXCEPT !._zones.map = Put(@, name, zone_id),
                  !._zone_records = Put(@, name, <<>>)]

\* the cache is left as it is
_apply_clear_cache_keep(c, name) == c

\* self._zone_records.pop(name, None)
_apply_clear_cache(c, name) == [c EXCEPT !._zone_records = Pop(@, name)]

_apply(c, name, changes) ==
    LET c1 == zones(c)
        c2 == IF name \notin DOMAIN c1._zones.map
              THEN _apply_no_matching_zone(c1, name) ELSE c1
        c3 == _apply_changes(c2, changes, 1)
    IN  IF c1.status # "ok" THEN c1
        ELSE IF c3.status # "ok" THEN c3
        ELSE _apply_clear_cache([c3 EXCEPT !.cur = 0], name)

(***************************************************************************)
(* The plans handed to _apply: every record of a plan belongs to the       *)
(* plan's zone (plan.desired)                                              *)
(***************************************************************************)
Record(zone, name, type, ttl, values) ==
    [zone |-> zone, name |-> name, type |-> type, ttl |-> ttl, values |-> values]

Create(new) == [class |-> "Create", new |-> new]

Delete(existing) == [class |-> "Delete", existing |-> existing]

Update(existing, new) == [class |-> "Update", existing |-> existing, new |-> new]

RecordA(zone) == Record(zone, "x", "A", 300, << <<"1">>, <<"2">> >>)

RecordTXT(zone) == Record(zone, "x", "TXT", 60, << <<"v", "\\", ";">> >>)

RecordSRV(zone) == Record(zone, "s", "SRV", 60, << <<"p">> >>)

PlanChanges(zone) ==
    { Create(RecordA(zone)), Create(RecordSRV(zone)),
      Delete(RecordA(zone)), Delete(RecordSRV(zone)),
      Update(RecordA(zone), RecordTXT(zone)) }

Plans(zone) == UNION {[1..n -> PlanChanges(zone)] : n \in 0..MaxChanges}

(***************************************************************************)
(* The state machine                                                       *)
(***************************************************************************)
NoInput == [dir |-> "none"]

NoOutput == [status |-> "none"]

\* no call is in progress
Idle == [op |-> "idle", zone |-> "", changes |-> <<>>, reqs |-> <<>>,
         status |-> "ok", failed |-> 0, cur |-> 0, ret |-> <<>>, added |-> {}]

Init ==
    /\ _zones = [isNone |-> TRUE, map |-> EmptyMap]
    /\ _zone_records = EmptyMap
    /\ remoteZones \in ZoneLayouts
    /\ remoteRecords \in {r \in [RemoteIds -> ListingNames] : r["False"] = "paged"}
    /\ last = Idle
    /\ prev = ""
    /\ tin = NoInput
    /\ tout = NoOutput

\* the context a call starts with
Start(failAt) ==
    [_zones |-> _zones, _zone_records |-> _zone_records, reqs |-> <<>>,
     status |-> "ok", failAt |-> failAt, failed |-> 0, cur |-> 0,
     ret |-> <<>>, added |-> {}]

\* the call has run to its return or to the exception it raises, context c
Finish(op, zone, changes, c) ==
    /\ _zones' = c._zones
    /\ _zone_records' = c._zone_records
    /\ last' = [op |-> op, zone |-> zone, changes |-> changes, reqs |-> c.reqs,
                status |-> c.status, failed |-> c.failed, cur |-> c.cur,
                ret |-> c.ret, added |-> c.added]
    /\ UNCHANGED <<remoteZones, remoteRecords, prev, tin, tout>>

Populate ==
    /\ last = Idle
    /\ \E zone \in ZoneNames, failAt \in 0..MaxFail :
          \E c \in {populate(Start(failAt), zone)} :
              Finish("populate", zone, <<>>, c)

Apply ==
    /\ last = Idle
    /\ \E zone \in ZoneNames, failAt \in 0..MaxFail :
          \E changes \in Plans(zone) :
              \E c \in {_apply(Start(failAt), zone, changes)} :
                  Finish("_apply", zone, changes, c)

\* the caller takes the outcome of the call; the provider is idle again
Return ==
    /\ last # Idle
    /\ last' = Idle
    /\ prev' = IF last.op = "_apply" /\ last.status = "ok" THEN last.zone ELSE ""
    /\ UNCHANGED <<_zones, _zone_records, remoteZones, remoteRecords, tin, tout>>

\* somebody changes the record sets of a zone at the remote service
RemoteChange ==
    /\ last = Idle
    /\ \E id \in ZoneIds, l \in ListingNames :
          /\ remoteRecords[id] # l
          /\ remoteRecords' = [remoteRecords EXCEPT ![id] = l]
    /\ UNCHANGED <<_zones, _zone_records, remoteZones, last, prev, tin, tout>>

Next == Populate \/ Apply \/ Return \/ RemoteChange

Spec == Init /\ [][Next]_vars

(***************************************************************************)
(* The translators on their own: Init draws a group of wire record sets    *)
(* or a neutral record, the actions translate it                           *)
(***************************************************************************)
SeqsUpTo(S, lo, hi) == UNION {[1..n -> S] : n \in lo..hi}

\* raw rrdatas strings
RawValues == {<<"1">>, <<"v", ";">>}

\* values of neutral records
NeutralValues == {<<"1">>, <<"v", "\\", ";">>}

TTLs == {60, 300}

\* the record sets of one name and type: one or two rrdatas strings each
WireRecords(type) ==
    IF type = "MX"
    THEN {RRSet("x", "a.", type, 300, rrdatas) @@ [priority |-> 10] :
            rrdatas \in SeqsUpTo(RawValues, 1, 2)}
    ELSE {RRSet("x", "a.", type, 300, rrdatas) :
            rrdatas \in SeqsUpTo(RawValues, 1, 2)}

\* the groups populate can build: one or more record sets of one type
Groups ==
    UNION {{[dir |-> "in", type |-> type, records |-> records] :
               records \in SeqsUpTo(WireRecords(type), 1, MaxValues)} :
           type \in SUPPORTS}

MXValues == {[preference |-> 10, exchange |-> v] : v \in NeutralValues}

NeutralRecords ==
    UNION {{[dir |-> "out", record |-> Record("a.", "x", type, ttl, values)] :
               ttl \in TTLs,
               values \in SeqsUpTo(IF type = "MX" THEN MXValues ELSE NeutralValues,
                                   0, MaxValues)} :
           type \in SUPPORTS \ {"CNAME"}}
    \cup {[dir |-> "out",
           record |-> [zone |-> "a.", name |-> "x", type |-> "CNAME",
                       ttl |-> ttl, value |-> v]] :
             ttl \in TTLs, v \in NeutralValues}

\* TXT strings of backslashes, semicolons and other characters
TxtStrings == SeqsUpTo({"v", "\\", ";"}, 1, MaxTxtLen)

\* a TXT record set with one raw string
TXTGroups ==
    {[dir |-> "in", type |-> "TXT",
      records |-> <<RRSet("x", "a.", "TXT", 300, <<v>>)>>] : v \in TxtStrings}

\* a TXT record with one value
TXTRecords ==
    {[dir |-> "out", record |-> Record("a.", "x", "TXT", 300, <<v>>)] :
        v \in TxtStrings}

InitTranslate ==
    /\ _zones = [isNone |-> TRUE, map |-> EmptyMap]
    /\ _zone_records = EmptyMap
    /\ remoteZones \in ZoneLayouts
    /\ remoteRecords = [id \in RemoteIds |-> "paged"]
    /\ last = Idle
    /\ prev = ""
    /\ tin \in Groups \cup NeutralRecords \cup TXTGroups \cup TXTRecords
    /\ tout = NoOutput

\* data_for = getattr(self, '_data_for_<type>'); data = data_for(_type, records)
TranslateIn ==
    /\ tout.status = "none"
    /\ tin.dir = "in"
    /\ tout' = IF tin.type \in DataForTypes
               THEN [status |-> "ok", data |-> data_for(tin.type, tin.records)]
               ELSE [status |-> "AttributeError"]
    /\ UNCHANGED <<_zones, _zone_records, remoteZones, remoteRecords, last,
                   prev, tin>>

\* the context of a provider that has listed the zones and nothing else
InventoryListed ==
    [Start(0) EXCEPT !._zones = [isNone |-> FALSE,
                                 map |-> ("a." :> "z1")]]

\* contents_for = getattr(self, '_contents_for_<type>'); contents_for(record),
\* and the requests _apply_Create sends for the record
TranslateOut ==
    /\ tout.status = "none"
    /\ tin.dir = "out"
    /\ tout' = IF tin.record.type \in ContentsForTypes
               THEN [status |-> "ok", contents |-> contents_for(tin.record),
                     reqs |-> _apply_Create(InventoryListed,
                                            Create(tin.record)).reqs]
               ELSE [status |-> "AttributeError"]
    /\ UNCHANGED <<_zones, _zone_records, remoteZones, remoteRecords, last,
                   prev, tin>>

\* the record set the remote lists for a written TXT entry: the entry's
\* content is its only rrdatas string
ListedTXT(entry) ==
    RRSet(hostname_from_fqdn(entry.name), entry.name[2], entry.type, entry.ttl,
          <<entry.content>>)

\* the single fragment of a TXT record, completed by _apply_Create, is read
\* back by _data_for_TXT
TranslateBack ==
    /\ tin.dir = "out"
    /\ tin.record.type = "TXT"
    /\ tout.status = "ok"
    /\ "back" \notin DOMAIN tout
    /\ Len(tout.contents) = 1
    /\ tout' = tout @@
          [back |-> data_for("TXT",
              <<ListedTXT(content_update(tout.contents[1], tin.record))>>)]
    /\ UNCHANGED <<_zones, _zone_records, remoteZones, remoteRecords, last,
                   prev, tin>>

NextTranslate == TranslateIn \/ TranslateOut \/ TranslateBack

SpecTranslate == InitTranslate /\ [][NextTranslate]_vars

(***************************************************************************)
(* Reading the requests of a call                                          *)
(***************************************************************************)
\* the requests of one kind, in the order they were executed
OfKind(reqs, kind) == SelectSeq(reqs, LAMBDA e : e.request.kind = kind)

\* the write requests executed while change i was being applied
WritesOf(reqs, i) ==
    SelectSeq(reqs, LAMBDA e : e.request.kind = "changes.create" /\ e.change = i)

Additions(body) == IF "additions" \in DOMAIN body THEN body.additions ELSE <<>>

Deletions(body) == IF "deletions" \in DOMAIN body THEN body.deletions ELSE <<>>

\* the zone names the remote managedZones listing holds
RemoteZoneNames ==
    UNION {{remoteZones[p][k].dnsName : k \in DOMAIN remoteZones[p]} :
              p \in DOMAIN remoteZones}

\* the id the inventory holds for a zone name, "False" when it holds none
InventoryId(zone) == Get(_zones.map, zone, "False")

IsPrefix(s, t) == Len(s) <= Len(t) /\ \A i \in 1..Len(s) : s[i] = t[i]

(***************************************************************************)
(* C1: after an _apply that returned normally the plan's zone is not a key *)
(* of the record cache, and the next zone_records read of that zone, when  *)
(* the inventory knows the zone, sends a list-record-sets request and      *)
(* returns the record sets the remote holds at that moment.                *)
(***************************************************************************)
C1_FreshAfterApply ==
    /\ (last.op = "_apply" /\ last.status = "ok")
          => last.zone \notin DOMAIN _zone_records
    /\ (last.op = "populate" /\ prev = last.zone
            /\ Truthy(InventoryId(last.zone)))
          => /\ OfKind(last.reqs, "resourceRecordSets.list") # <<>>
             /\ last.status # "TransportFailure"
                   => last.ret = Flatten(RemotePages(InventoryId(last.zone)))

\* a read right after a successful apply that returns record sets
C1_Witness ==
    /\ last.op = "populate" /\ prev = last.zone
    /\ Truthy(InventoryId(last.zone))
    /\ last.status = "ok" /\ last.ret # <<>>

(***************************************************************************)
(* C2: for every Delete change of an _apply that returned normally, the    *)
(* write requests of the change are one per fragment of change.existing    *)
(* (as many as the record has values), each declaring exactly one deletion *)
(* and no addition, however many record sets the zone holds.               *)
(***************************************************************************)
C2_DeletePerFragment ==
    (last.op = "_apply" /\ last.status = "ok")
       => \A i \in DOMAIN last.changes :
             (/\ last.changes[i].class = "Delete"
              /\ last.changes[i].existing.type \in ContentsForTypes)
                => LET w == WritesOf(last.reqs, i)
                   IN  /\ Len(w) = Len(last.changes[i].existing.values)
                       /\ \A k \in DOMAIN w :
                             /\ Len(Deletions(w[k].request.body)) = 1
                             /\ Additions(w[k].request.body) = <<>>

(***************************************************************************)
(* C3: a Create change of a record with n values that has been applied     *)
(* sent exactly n write requests, the k-th declaring exactly one addition, *)
(* built from the k-th value and carrying the record's fqdn, type and ttl, *)
(* and no deletion.                                                        *)
(***************************************************************************)
\* change i of the call has been applied to its end
Applied(l, i) == l.status = "ok" \/ i < l.cur

C3_CreatePerValue ==
    last.op = "_apply"
       => \A i \in DOMAIN last.changes :
             (last.changes[i].class = "Create" /\ Applied(last, i))
                => LET new == last.changes[i].new
                       w == WritesOf(last.reqs, i)
                   IN  /\ Len(w) = Len(new.values)
                       /\ \A k \in DOMAIN w :
                             LET body == w[k].request.body
                                 a == body.additions[1]
                             IN  /\ Len(Additions(body)) = 1
                                 /\ Deletions(body) = <<>>
                                 /\ a.name = <<new.name, new.zone>>
                                 /\ a.type = new.type
                                 /\ a.ttl = new.ttl
                                 /\ a.rrdatas = <<new.values[k]>>

\* a Create of a record with two values was applied with two requests
C3_Witness ==
    /\ last.op = "_apply" /\ last.status = "ok"
    /\ \E i \in DOMAIN last.changes :
          /\ last.changes[i].class = "Create"
          /\ Len(last.changes[i].new.values) = 2
          /\ Len(WritesOf(last.reqs, i)) = 2

(***************************************************************************)
(* C4: within one _apply the requests are sent in change-list order and,   *)
(* within a change, in the order the outbound translator yields the        *)
(* fragments; a request that fails is the last request of the call, so the *)
(* requests sent are a prefix of the requests the call sends when none     *)
(* fails.                                                                  *)
(***************************************************************************)
\* the record a change translates
RecordOf(change) == IF change.class = "Create" THEN change.new ELSE change.existing

C4_InOrder(l) ==
    LET n == Len(l.reqs)
    IN  /\ \A p \in 1..(n - 1) : l.reqs[p].change <= l.reqs[p + 1].change
        /\ \A p \in 1..n :
              l.reqs[p].request.kind = "changes.create"
                 => LET e == l.reqs[p]
                        rec == RecordOf(l.changes[e.change])
                        body == e.request.body
                        entry == content_update(contents_for(rec)[e.frag], rec)
                    IN  /\ l.changes[e.change].class \in {"Create", "Delete"}
                        /\ IF l.changes[e.change].class = "Create"
                           THEN Additions(body) = <<entry>>
                           ELSE Deletions(body) = <<entry>>
        /\ \A i \in DOMAIN l.changes :
              LET w == WritesOf(l.reqs, i)
                  frags == IF RecordOf(l.changes[i]).type \in ContentsForTypes
                           THEN Len(contents_for(RecordOf(l.changes[i])))
                           ELSE 0
              IN  /\ w # <<>> => w[1].frag = 1
                  /\ \A q \in 1..(Len(w) - 1) :
                        \/ w[q + 1].frag = w[q].frag + 1
                        \/ /\ l.changes[i].class = "Delete"
                           /\ w[q].frag = frags
                           /\ w[q + 1].frag = 1
                  /\ l.changes[i].class = "Create" => Len(w) <= frags
        /\ (l.failed # 0 \/ l.status = "TransportFailure")
              => l.status = "TransportFailure" /\ l.failed = n

C4_OrderedPrefix ==
    [][(last.op = "idle" /\ last'.op = "_apply")
          => /\ C4_InOrder(last')
             /\ \A c \in {_apply(Start(0), last'.zone, last'.changes)} :
                   IsPrefix(last'.reqs, c.reqs)]_vars

\* a write of the second change failed after the writes of the first
C4_Witness ==
    /\ last.op = "_apply" /\ last.status = "TransportFailure"
    /\ last.cur = 2
    /\ Len(WritesOf(last.reqs, 1)) = 2
    /\ last.reqs[Len(last.reqs)].request.kind = "changes.create"
    /\ last.reqs[Len(last.reqs)].frag = 2

(***************************************************************************)
(* C5: a zone_records call for a known zone whose listing is in the record *)
(* cache is served from that cache entry and sends no list-record-sets     *)
(* request.                                                                *)
(***************************************************************************)
C5_ServedFromCache ==
    [][(/\ last.op = "idle" /\ last'.op = "populate"
        /\ last'.zone \in DOMAIN _zone_records
        /\ Truthy(InventoryId(last'.zone)))
          => /\ OfKind(last'.reqs, "resourceRecordSets.list") = <<>>
             /\ last'.ret = _zone_records[last'.zone]]_vars

(***************************************************************************)
(* C6: once the zone listing has completed, no call of populate or _apply  *)
(* sends a list-zones request again and the inventory stays populated.     *)
(***************************************************************************)
C6_ZonesListedOnce ==
    [][(~_zones.isNone /\ last.op = "idle" /\ last'.op # "idle")
          => /\ OfKind(last'.reqs, "managedZones.list") = <<>>
             /\ ~_zones'.isNone]_vars

\* a call that sent requests, none of them a list-zones request
C6_Witness ==
    /\ last.op \in {"populate", "_apply"}
    /\ last.reqs # <<>>
    /\ OfKind(last.reqs, "managedZones.list") = <<>>

(***************************************************************************)
(* C7: for a zone whose name the remote zone listing does not hold, no     *)
(* call sends a list-record-sets request, and populate of such a zone      *)
(* returns normally, reads an empty sequence and adds no record.           *)
(***************************************************************************)
C7_UnknownZoneNoList ==
    (last.op \in {"populate", "_apply"} /\ last.zone \notin RemoteZoneNames)
       => /\ OfKind(last.reqs, "resourceRecordSets.list") = <<>>
          /\ (last.op = "populate" /\ last.status # "TransportFailure")
                => last.status = "ok" /\ last.ret = <<>> /\ last.added = {}

(***************************************************************************)
(* C8: a listing of N pages is read with exactly N list requests, page by  *)
(* page: the inventory then holds every zone of every page, and            *)
(* zone_records returns the record sets of all pages in page order.        *)
(***************************************************************************)
RECURSIVE PageOffset(_, _)
\* the number of entries on the pages before page p
PageOffset(pages, p) ==
    IF p = 1 THEN 0 ELSE PageOffset(pages, p - 1) + Len(pages[p - 1])

C8_AllPages ==
    /\ (/\ last.op \in {"populate", "_apply"}
        /\ ~_zones.isNone
        /\ OfKind(last.reqs, "managedZones.list") # <<>>)
          => LET z == OfKind(last.reqs, "managedZones.list")
             IN  /\ Len(z) = Len(remoteZones)
                 /\ \A p \in DOMAIN z : z[p].request.page = p
                 /\ \A p \in DOMAIN remoteZones :
                       \A k \in DOMAIN remoteZones[p] :
                          InventoryId(remoteZones[p][k].dnsName)
                             = remoteZones[p][k].id
    /\ (/\ last.op = "populate"
        /\ Truthy(InventoryId(last.zone))
        /\ last.status # "TransportFailure")
          => LET r == OfKind(last.reqs, "resourceRecordSets.list")
                 pages == RemotePages(InventoryId(last.zone))
             IN  /\ Len(r) = Len(pages)
                 /\ \A p \in DOMAIN r :
                       /\ r[p].request.page = p
                       /\ r[p].request.managedZone = InventoryId(last.zone)
                 /\ Len(last.ret) = PageOffset(pages, Len(pages) + 1)
                 /\ \A p \in DOMAIN pages :
                       \A k \in DOMAIN pages[p] :
                          last.ret[PageOffset(pages, p) + k] = pages[p][k]

\* a populate that read a two-page zone listing and a two-page record listing
C8_Witness ==
    /\ last.op = "populate" /\ last.status = "ok"
    /\ Len(OfKind(last.reqs, "managedZones.list")) = 2
    /\ Len(OfKind(last.reqs, "resourceRecordSets.list")) = 2
    /\ Len(last.ret) = 2

(***************************************************************************)
(* C9: for a group of type A, AAAA, SPF, NS or TXT the inbound translator  *)
(* yields one value per raw rrdatas string of the group's entries, in      *)
(* entry order and then rrdatas order (TXT values escaped).                *)
(***************************************************************************)
RECURSIVE AllRrdatas(_)
\* the rrdatas strings of the entries of a group, in the remote's order
AllRrdatas(records) ==
    IF records = <<>> THEN <<>>
    ELSE Head(records).rrdatas \o AllRrdatas(Tail(records))

C9_ValuePerRrdata ==
    (/\ tin.dir = "in"
     /\ tin.type \in {"A", "AAAA", "SPF", "NS", "TXT"}
     /\ tout.status # "none")
       => LET raw == AllRrdatas(tin.records)
          IN  /\ tout.status = "ok"
              /\ Len(tout.data.values) = Len(raw)
              /\ \A k \in DOMAIN raw :
                    tout.data.values[k] = IF tin.type = "TXT"
                                          THEN escape(raw[k]) ELSE raw[k]

(***************************************************************************)
(* C10: for a record of type A, AAAA, NS, SPF, TXT or MX the outbound      *)
(* translator yields one fragment per value, in values order; for a CNAME  *)
(* it yields exactly one fragment; a record without values yields no       *)
(* fragment and its Create sends no write request.                         *)
(***************************************************************************)
C10_FragmentPerValue ==
    (tin.dir = "out" /\ tout.status # "none")
       => LET r == tin.record
          IN  /\ r.type \in {"A", "AAAA", "NS", "SPF", "TXT", "MX"}
                    => /\ tout.status = "ok"
                       /\ Len(tout.contents) = Len(r.values)
                       /\ \A k \in DOMAIN r.values :
                             CASE r.type = "MX" ->
                                    /\ tout.contents[k].content = r.values[k].exchange
                                    /\ tout.contents[k].priority = r.values[k].preference
                               [] r.type = "TXT" ->
                                    tout.contents[k].content = unescape(r.values[k])
                               [] OTHER ->
                                    tout.contents[k].rrdatas = <<r.values[k]>>
                       /\ Len(OfKind(tout.reqs, "changes.create")) = Len(r.values)
              /\ r.type = "CNAME"
                    => /\ tout.status = "ok"
                       /\ Len(tout.contents) = 1
                       /\ tout.contents[1].content = r.value

\* a record with two different values was translated into two fragments
C10_Witness ==
    /\ tin.dir = "out" /\ tout.status = "ok"
    /\ tin.record.type = "A"
    /\ Len(tin.record.values) = 2
    /\ tin.record.values[1] # tin.record.values[2]
    /\ Len(tout.contents) = 2

(***************************************************************************)
(* C11: the inbound TXT translator replaces every ';' of a raw string by   *)
(* '\;', the outbound TXT translator replaces every '\;' of a value by ';', *)
(* and a TXT record with one value in which every ';' follows a backslash  *)
(* gets the same value back when its fragment is translated in again.      *)
(***************************************************************************)
\* every ';' of s follows a backslash
Escaped(s) == \A i \in DOMAIN s : s[i] = ";" => (i > 1 /\ s[i - 1] = "\\")

\* the number of ';' in s
Semis(s) == Cardinality({i \in DOMAIN s : s[i] = ";"})

C11_TXTRoundTrip ==
    /\ (tin.dir = "in" /\ tin.type = "TXT" /\ tout.status # "none")
          => /\ tout.status = "ok"
             /\ \A i \in DOMAIN tin.records :
                   LET raw == tin.records[i].rrdatas[1]
                       value == tout.data.values[i]
                   IN  /\ value = escape(raw)
                       /\ Escaped(value)
                       /\ Len(value) = Len(raw) + Semis(raw)
    /\ (tin.dir = "out" /\ tin.record.type = "TXT" /\ tout.status # "none")
          => /\ tout.status = "ok"
             /\ \A k \in DOMAIN tin.record.values :
                   tout.contents[k].content = unescape(tin.record.values[k])
    /\ (/\ tin.dir = "out" /\ "back" \in DOMAIN tout
        /\ Escaped(tin.record.values[1]))
          => tout.back.values = tin.record.values

\* a value with an escaped ';' came back after it was sent with a bare ';'
C11_Witness ==
    /\ tin.dir = "out" /\ "back" \in DOMAIN tout
    /\ Escaped(tin.record.values[1])
    /\ Semis(tin.record.values[1]) > 0
    /\ Semis(tout.contents[1].content) > 0
    /\ ~Escaped(tout.contents[1].content)
    /\ tout.back.values = tin.record.values

(***************************************************************************)
(* C12: every record populate adds to the zone is built from exactly the   *)
(* listed record sets that have its hostname and its type, in listing      *)
(* order, and populate adds at most one record per (hostname, type).       *)
(***************************************************************************)
\* the listed record sets of one hostname and type
EntriesOf(listing, name, type) ==
    SelectSeq(listing, LAMBDA e : hostname_from_fqdn(e.name) = name /\ e.type = type)

C12_GroupedByNameAndType ==
    (last.op = "populate" /\ last.status = "ok")
       => /\ \A r \in last.added :
                LET entries == EntriesOf(last.ret, r.name, r.type)
                IN  /\ entries # <<>>
                    /\ r.ttl = entries[1].ttl
                    /\ Len(r.values) = Len(entries)
                    /\ r = Record_new(last.zone, r.name, data_for(r.type, entries))
          /\ \A r1, r2 \in last.added :
                (r1.name = r2.name /\ r1.type = r2.type) => r1 = r2

\* one listing gave two records of one name, two records of one type, and a
\* record built from two record sets
C12_Witness ==
    /\ last.op = "populate" /\ last.status = "ok"
    /\ \E r1, r2, r3 \in last.added :
          /\ r1.name = r2.name /\ r1.type # r2.type
          /\ r1.name # r3.name /\ r1.type = r3.type
          /\ Len(r1.values) = 2

(***************************************************************************)
(* C13: a listed record set whose type is not in SUPPORTS contributes to   *)
(* no record and does not make populate fail: populate returns normally    *)
(* and adds exactly one record per (hostname, type) of the record sets     *)
(* whose type is in SUPPORTS.                                              *)
(***************************************************************************)
C13_UnsupportedDropped ==
    (/\ last.op = "populate"
     /\ \E i \in DOMAIN last.ret : last.ret[i].type \notin SUPPORTS
     /\ \A i \in DOMAIN last.ret :
           last.ret[i].type \in SUPPORTS => last.ret[i].type \in DataForTypes)
       => /\ last.status = "ok"
          /\ \A r \in last.added : r.type \in SUPPORTS
          /\ {<<r.name, r.type>> : r \in last.added}
                = {<<hostname_from_fqdn(last.ret[i].name), last.ret[i].type>> :
                      i \in {j \in DOMAIN last.ret : last.ret[j].type \in SUPPORTS}}

\* a listing with an SOA record set gave the records of the other record sets
C13_Witness ==
    /\ last.op = "populate" /\ last.status = "ok"
    /\ \E i \in DOMAIN last.ret : last.ret[i].type = "SOA"
    /\ Cardinality(last.added) = 2

(***************************************************************************)
(* C14: a populate whose listing holds a record set of a supported type    *)
(* without inbound translator, and an _apply whose change list holds a     *)
(* Create or a Delete of a record of a supported type without outbound     *)
(* translator, never return normally, whatever the zone's listing holds.   *)
(***************************************************************************)
C14_MissingTranslatorFails ==
    /\ (/\ last.op = "populate"
        /\ \E i \in DOMAIN last.ret :
              last.ret[i].type \in SUPPORTS \ DataForTypes)
          => last.status # "ok"
    /\ (/\ last.op = "_apply"
        /\ \E i \in DOMAIN last.changes :
              /\ last.changes[i].class \in {"Create", "Delete"}
              /\ RecordOf(last.changes[i]).type \in SUPPORTS \ ContentsForTypes)
          => last.status # "ok"

(***************************************************************************)
(* C15: when an _apply has ended, normally or with an exception, the       *)
(* plan's zone is not a key of the record cache.                           *)
(***************************************************************************)
C15_CacheDroppedAlways ==
    last.op = "_apply" => last.zone \notin DOMAIN _zone_records

(***************************************************************************)
(* C16: an _apply for a zone the remote zone listing does not hold never   *)
(* fails on looking the zone up: its requests follow the change list, a    *)
(* Create that was applied sent one write request per fragment, and a plan *)
(* of translatable Creates none of whose requests fails returns normally.  *)
(***************************************************************************)
C16_UnknownZoneProceeds ==
    (last.op = "_apply" /\ last.zone \notin RemoteZoneNames)
       => /\ last.status # "KeyError"
          /\ \A p \in 1..(Len(last.reqs) - 1) :
                last.reqs[p].change <= last.reqs[p + 1].change
          /\ \A i \in DOMAIN last.changes :
                (/\ last.changes[i].class = "Create"
                 /\ last.changes[i].new.type \in ContentsForTypes
                 /\ Applied(last, i))
                   => LET w == WritesOf(last.reqs, i)
                      IN  /\ Len(w) = Len(contents_for(last.changes[i].new))
                          /\ \A k \in DOMAIN w :
                                /\ w[k].frag = k
                                /\ Len(Additions(w[k].request.body)) = 1
          /\ (/\ last.failed = 0
              /\ \A i \in DOMAIN last.changes :
                    /\ last.changes[i].class = "Create"
                    /\ last.changes[i].new.type \in ContentsForTypes)
                => last.status = "ok"

\* two Creates for a zone the remote does not hold were applied
C16_Witness ==
    /\ last.op = "_apply" /\ last.status = "ok"
    /\ last.zone \notin RemoteZoneNames
    /\ Len(last.changes) = 2
    /\ \A i \in DOMAIN last.changes :
          /\ last.changes[i].class = "Create"
          /\ Len(WritesOf(last.reqs, i)) = 2

(***************************************************************************)
(* C17: an _apply whose change list holds a change that is neither a       *)
(* Create nor a Delete, the first one at position k, does not return       *)
(* normally and sends no request for change k or a later one; when the     *)
(* changes before k have been applied it fails at k with an AttributeError *)
(* after the requests of the changes before k, all of them.                *)
(***************************************************************************)
\* the position of the first change that is neither a Create nor a Delete
FirstOther(changes) ==
    CHOOSE k \in DOMAIN changes :
        /\ changes[k].class \notin {"Create", "Delete"}
        /\ \A i \in 1..(k - 1) : changes[i].class \in {"Create", "Delete"}

C17_OnlyCreateAndDelete ==
    [][(/\ last.op = "idle" /\ last'.op = "_apply"
        /\ \E i \in DOMAIN last'.changes :
              last'.changes[i].class \notin {"Create", "Delete"})
          => LET l == last'
                 k == FirstOther(l.changes)
             IN  /\ l.status # "ok"
                 /\ \A p \in DOMAIN l.reqs : l.reqs[p].change < k
                 /\ l.cur <= k
                 /\ l.cur = k
                       => /\ l.status = "AttributeError"
                          /\ l.failed = 0
                          /\ \A c \in {_apply(Start(0), l.zone,
                                              SubSeq(l.changes, 1, k - 1))} :
                                l.reqs = c.reqs
                 /\ (/\ l.failed = 0
                     /\ \A i \in 1..(k - 1) :
                           RecordOf(l.changes[i]).type \in ContentsForTypes)
                       => l.cur = k]_vars

\* an Update in second position failed after the two writes of a Create
C17_Witness ==
    /\ last.op = "_apply" /\ last.status = "AttributeError"
    /\ Len(last.changes) = 2
    /\ last.changes[1].class = "Create"
    /\ last.changes[2].class = "Update"
    /\ last.cur = 2
    /\ Len(WritesOf(last.reqs, 1)) = 2
    /\ WritesOf(last.reqs, 2) = <<>>

(***************************************************************************)
(* C18: once the inventory is populated it holds exactly the zones of the  *)
(* remote zone listing, each under its DNS name with the id listed with    *)
(* it, and every write request carries one of those ids as managedZone.    *)
(***************************************************************************)
\* the ids the remote managedZones listing holds
RemoteZoneIds ==
    UNION {{remoteZones[p][k].id : k \in DOMAIN remoteZones[p]} :
              p \in DOMAIN remoteZones}

C18_InventoryIntegrity ==
    /\ ~_zones.isNone
          => /\ DOMAIN _zones.map = RemoteZoneNames
             /\ \A name \in DOMAIN _zones.map :
                   \E p \in DOMAIN remoteZones : \E k \in DOMAIN remoteZones[p] :
                      remoteZones[p][k] = ManagedZone(name, _zones.map[name])
    /\ \A p \in DOMAIN last.reqs :
          last.reqs[p].request.kind = "changes.create"
             => last.reqs[p].request.managedZone \in RemoteZoneIds

(***************************************************************************)
(* C19: every fragment the outbound translator yields for an A, AAAA, NS   *)
(* or SPF record is {content: value}, and the addition a Create sends for  *)
(* it carries content, name, type and ttl.                                 *)
(***************************************************************************)
C19_ContentKey ==
    (/\ tin.dir = "out"
     /\ tin.record.type \in {"A", "AAAA", "NS", "SPF"}
     /\ tout.status = "ok")
       => /\ \A k \in DOMAIN tout.contents :
                /\ DOMAIN tout.contents[k] = {"content"}
                /\ tout.contents[k].content = tin.record.values[k]
          /\ \A p \in DOMAIN tout.reqs :
                tout.reqs[p].request.kind = "changes.create"
                   => DOMAIN tout.reqs[p].request.body.additions[1]
                         = {"content", "name", "type", "ttl"}

(***************************************************************************)
(* C20: a call in which a list-zones request fails leaves the inventory    *)
(* unpopulated, and the next call starts the zone listing at its first     *)
(* page; a populate in which a list-record-sets request fails leaves the   *)
(* record cache as it was; and an entry a call puts into the record cache  *)
(* is the listing of a pagination of that zone that the call ran to its    *)
(* last page.                                                              *)
(***************************************************************************)
\* the kind of the request of call l that failed, "" when none failed
FailedKind(l) == IF l.failed = 0 THEN "" ELSE l.reqs[l.failed].request.kind

\* a failed zone listing leaves no inventory, and a call that finds none
\* lists the zones from the first page
C20_ZonesAllOrNothing ==
    /\ FailedKind(last') = "managedZones.list" => _zones'.isNone
    /\ (_zones.isNone /\ last'.reqs # <<>>)
          => /\ last'.reqs[1].request.kind = "managedZones.list"
             /\ last'.reqs[1].request.page = 1

\* a failed record listing of populate leaves the cache as it was
C20_RecordsAllOrNothing ==
    (last'.op = "populate" /\ FailedKind(last') = "resourceRecordSets.list")
       => _zone_records' = _zone_records

\* call l sent the list requests of all the pages of the listing of zone id
\* one after the other, and all of them were answered
ListedToTheEnd(l, id) ==
    LET n == Len(RemotePages(id))
    IN  \E p \in DOMAIN l.reqs :
           /\ p + n - 1 <= Len(l.reqs)
           /\ \A j \in 1..n :
                 /\ l.reqs[p + j - 1].request.kind = "resourceRecordSets.list"
                 /\ l.reqs[p + j - 1].request.managedZone = id
                 /\ l.reqs[p + j - 1].request.page = j
                 /\ l.failed # p + j - 1

\* an entry the call put into the cache is a complete listing it has read
C20_EntriesComplete ==
    \A name \in DOMAIN _zone_records' :
       (name \notin DOMAIN _zone_records \/ _zone_records'[name] # _zone_records[name])
          => \E id \in RemoteIds :
                /\ ListedToTheEnd(last', id)
                /\ _zone_records'[name] = Flatten(RemotePages(id))

C20_NoPartialCache ==
    [][(last.op = "idle" /\ last'.op # "idle")
          => /\ C20_ZonesAllOrNothing
             /\ C20_RecordsAllOrNothing
             /\ C20_EntriesComplete]_vars

====
